---- MODULE Spec2Model ----
(***************************************************************************)
(* Model of the Pension Pilot mail service (src/index.js): the connection  *)
(* manager initializeTransporter with its retry ladder, the module-level   *)
(* transporter handle, and the HTTP handlers GET /, POST /test-email and   *)
(* POST /send.                                                             *)
(*                                                                         *)
(* One action is one event-loop job: the code that runs from one await     *)
(* (or from the arrival of a request) to the next await.  The resolution   *)
(* of the promise returned by initializeTransporter and the continuation   *)
(* of its caller (the .then callback of line 106, the code after the await *)
(* of line 135) are separate jobs, so they are separate actions.           *)
(***************************************************************************)
EXTENDS Integers, Sequences, FiniteSets, TLC

VARIABLES
    passwordSet,    \* process.env.EMAIL_PASSWORD is a non-empty string
    plan,           \* behaviour of the SMTP server towards transporter.verify()
    main,           \* position of the module body: "load" or "listening"
    serviceState,   \* the serviceState object of lines 9-15
    transporter,    \* the module-level let transporter of line 105
    proc            \* the startup call and the request handlers in flight

vars == <<passwordSet, plan, main, serviceState, transporter, proc>>

(***************************************************************************)
(* Bounds of the model and constants of the program.                       *)
(***************************************************************************)
MaxToLen == 5

MaxScript == 7

maxReconnectAttempts == 5

BackoffUnit == 5000

Slots == {"r1", "r2"}

OneSlot == {"r1"}

Procs == {"startup"} \cup Slots

MessageIds == {"<id1>", "<id2>"}

(***************************************************************************)
(* JSON values of a request body: a string (a sequence of characters) or   *)
(* undefined (the field is absent).                                        *)
(***************************************************************************)
Undefined == [t |-> "undefined", v |-> <<>>]

Str(s) == [t |-> "string", v |-> s]

Whitespace == {" "}

Alphabet == {"a", "@", ".", " "}

AllStrings(n) == UNION {[1..k -> Alphabet] : k \in 0..n}

\* !x of JavaScript for x undefined or a string
Falsy(x) == x.t = "undefined" \/ x.v = <<>>

SMTP_CONFIG ==
    [host |-> "mail.privateemail.com",
     port |-> 465,
     secure |-> TRUE,
     user |->
        <<"n","o","r","e","p","l","y","@","p","e","n","s","i","o","n","-","p","i","l","o","t",".","c","o",".","u","k">>,
     bounceAddress |->
        <<"b","o","u","n","c","e","s","@","p","e","n","s","i","o","n","-","p","i","l","o","t",".","c","o",".","u","k">>,
     defaultReplyTo |->
        <<"n","o","r","e","p","l","y","@","p","e","n","s","i","o","n","-","p","i","l","o","t",".","c","o",".","u","k">>]

TestSubject ==
    <<"M","a","i","l"," ","S","e","r","v","i","c","e"," ","T","e","s","t">>

TestBody ==
    <<"T","h","i","s"," ","i","s"," ","a"," ","t","e","s","t"," ","e","m","a","i","l"," ","f","r","o","m"," ","t","h","e"," ","P","e","n","s","i","o","n"," ","P","i","l","o","t"," ","m","a","i","l"," ","s","e","r","v","i","c","e",".">>

(***************************************************************************)
(* emailRegex = /^[^\s@]+@[^\s@]+\.[^\s@]+$/ (line 193), run as the        *)
(* automaton of the pattern: state 0 before the local part, 1 inside it,   *)
(* 2 after the @, 3 inside the domain, 4 after a dot, 5 inside the last    *)
(* part.  A dot is itself a character of the class [^\s@], so state 3 has  *)
(* two successors on a dot.                                                *)
(***************************************************************************)
InClass(c) == c \notin Whitespace /\ c # "@"

RegexStep(q, c) ==
    CASE q = 0 -> IF InClass(c) THEN {1} ELSE {}
      [] q = 1 -> (IF InClass(c) THEN {1} ELSE {}) \cup (IF c = "@" THEN {2} ELSE {})
      [] q = 2 -> IF InClass(c) THEN {3} ELSE {}
      [] q = 3 -> (IF InClass(c) THEN {3} ELSE {}) \cup (IF c = "." THEN {4} ELSE {})
      [] q = 4 -> IF InClass(c) THEN {5} ELSE {}
      [] q = 5 -> IF InClass(c) THEN {5} ELSE {}

RECURSIVE RegexStates(_, _)
RegexStates(s, i) ==
    IF i = 0 THEN {0}
    ELSE UNION {RegexStep(q, s[i]) : q \in RegexStates(s, i - 1)}

\* mutant: the pattern without its \.[^\s@]+ part
emailRegexTest_NoDot(s) == {3, 5} \cap RegexStates(s, Len(s)) # {}

emailRegexTest(s) == 5 \in RegexStates(s, Len(s))

\* mutant: the check of body is forgotten
MissingFields_NoBody(in) == Falsy(in.to) \/ Falsy(in.subject)

\* if (!to || !subject || !body) of line 186
MissingFields(in) == Falsy(in.to) \/ Falsy(in.subject) \/ Falsy(in.body)

(***************************************************************************)
(* Error messages, responses, the status page and the composed message.    *)
(***************************************************************************)
ErrMissingEnv == "Missing required environment variables: EMAIL_PASSWORD"

ErrVerify == "verify rejected"

ErrMissingFields == "Missing required fields: to, subject, and body are required"

ErrInvalidEmail == "Invalid email address format"

ErrNotInitialized == "Mail service not initialized"

ErrSendMail == "sendMail rejected"

NoResponse == [status |-> 0, success |-> FALSE, error |-> "", messageId |-> ""]

\* res.json({success: true, messageId: info.messageId}) of lines 167-171, 209-212
SuccessResponse(id) == [status |-> 200, success |-> TRUE, error |-> "", messageId |-> id]

\* res.status(500).json({success: false, error: error.message}) of lines 173-176, 215-218
FailureResponse(msg) == [status |-> 500, success |-> FALSE, error |-> msg, messageId |-> ""]

NoPage == [sent |-> FALSE, isConnected |-> FALSE, currentStatus |-> "",
           errorMessage |-> "", passwordSet |-> FALSE]

\* statusData of lines 119-126 (lastError?.message || "")
StatusData ==
    [sent |-> TRUE,
     isConnected |-> transporter # "null",
     currentStatus |-> serviceState.connectionStatus,
     errorMessage |-> IF serviceState.lastError = "null" THEN "" ELSE serviceState.lastError,
     passwordSet |-> passwordSet]

NoInput == [to |-> Undefined, subject |-> Undefined, body |-> Undefined, replyTo |-> Undefined]

NoMail == [from |-> "", to |-> Undefined, subject |-> Undefined, text |-> Undefined,
           replyTo |-> Undefined, returnPath |-> Undefined]

\* emailConfig of lines 141-153; the from string is in single quotes, so
\* ${SMTP_CONFIG.user} is not interpolated
emailConfig(options) ==
    [from |-> "\"Pension Pilot\" <${SMTP_CONFIG.user}>",
     to |-> options.to,
     subject |-> options.subject,
     text |-> options.body,
     replyTo |-> IF Falsy(options.replyTo) THEN Str(SMTP_CONFIG.defaultReplyTo)
                 ELSE options.replyTo,
     returnPath |-> Str(SMTP_CONFIG.bounceAddress)]

\* the options object of lines 161-165
TestOptions ==
    [to |-> Str(SMTP_CONFIG.user), subject |-> Str(TestSubject), body |-> Str(TestBody),
     replyTo |-> Undefined]

IdleProc ==
    [pc |-> "idle", route |-> "none", input |-> NoInput,
     retryCount |-> 0, ret |-> "null",
     inits |-> 0, verifies |-> 0, waits |-> 0, sendMails |-> 0,
     mail |-> NoMail, mailResult |-> "none", info |-> "",
     response |-> NoResponse, page |-> NoPage]

(***************************************************************************)
(* initializeTransporter (lines 51-102).                                   *)
(***************************************************************************)
\* mutant: the check of the environment is skipped
validateConfigThrows_Never == FALSE

\* validateConfig (lines 39-48) throws when EMAIL_PASSWORD is missing
validateConfigThrows == ~passwordSet

\* mutant: one retry too many
ShouldRetry_OffByOne(retryCount) == retryCount <= maxReconnectAttempts

\* if (retryCount < serviceState.maxReconnectAttempts) of line 87
ShouldRetry(retryCount) == retryCount < maxReconnectAttempts

\* mutant: the same wait before every retry
BackoffDelay_Constant(retryCount) == BackoffUnit

\* setTimeout(resolve, 5000 * (retryCount + 1)) of lines 93-95
BackoffDelay(retryCount) == BackoffUnit * (retryCount + 1)

\* mutant: the retry counter is not reset
OnVerified_KeepAttempts(st) ==
    [st EXCEPT !.connectionStatus = "Connected", !.lastError = "null"]

\* mutant: a successful verify leaves the last error in place
OnVerified_KeepError(st) ==
    [st EXCEPT !.connectionStatus = "Connected", !.reconnectAttempts = 0]

\* lines 77-79, after await transporter.verify() has resolved
OnVerified(st) ==
    [st EXCEPT !.connectionStatus = "Connected", !.lastError = "null",
               !.reconnectAttempts = 0]

\* mutant: when the retries are used up the call never settles
Catch_Hang(retryCount, error, st, pr) ==
    LET st2 == [st EXCEPT !.lastError = error, !.connectionStatus = "Failed",
                          !.reconnectAttempts = retryCount + 1]
    IN  IF retryCount < maxReconnectAttempts
        THEN [st |-> st2,
              pr |-> [pr EXCEPT !.pc = "backoff", !.retryCount = retryCount,
                                !.waits = @ + BackoffUnit * (retryCount + 1)]]
        ELSE [st |-> st2,
              pr |-> [pr EXCEPT !.pc = "hung", !.retryCount = retryCount]]

\* the catch block, lines 82-101: the state is marked Failed, then either the
\* backoff timer is awaited or the call returns null
Catch(retryCount, error, st, pr) ==
    LET st2 == [st EXCEPT !.lastError = error, !.connectionStatus = "Failed",
                          !.reconnectAttempts = retryCount + 1]
    IN  IF ShouldRetry(retryCount)
        THEN [st |-> st2,
              pr |-> [pr EXCEPT !.pc = "backoff", !.retryCount = retryCount,
                                !.waits = @ + BackoffDelay(retryCount)]]
        ELSE [st |-> st2,
              pr |-> [pr EXCEPT !.pc = "returned", !.retryCount = retryCount,
                                !.ret = "null"]]

\* mutant: validateConfig is called outside the try, so its error leaves the call
initializeTransporter_Throws(p, retryCount, st, pr) ==
    IF validateConfigThrows
    THEN [st |-> st, pr |-> [pr EXCEPT !.pc = "thrown"]]
    ELSE [st |-> [st EXCEPT !.connectionStatus = "Initializing...",
                            !.lastCheck = p],
          pr |-> [pr EXCEPT !.pc = "verifying", !.retryCount = retryCount,
                            !.verifies = @ + 1]]

\* lines 52-74: one attempt of process p, from the call to await transporter.verify()
initializeTransporter(p, retryCount, st, pr) ==
    IF validateConfigThrows
    THEN Catch(retryCount, ErrMissingEnv, st, pr)
    ELSE [st |-> [st EXCEPT !.connectionStatus = "Initializing...",
                            !.lastCheck = p],
          pr |-> [pr EXCEPT !.pc = "verifying", !.retryCount = retryCount,
                            !.verifies = @ + 1]]

\* what transporter.verify() may answer under the plan of the SMTP server
VerifyCanResolve ==
    plan.mode = "flaky" \/ (plan.mode = "scripted" /\ plan.failsLeft = 0)

VerifyCanReject ==
    plan.mode \in {"flaky", "down"} \/ (plan.mode = "scripted" /\ plan.failsLeft > 0)

\* the module body: initializeTransporter().then(...) of line 106 runs up to its
\* first await, then app.listen of line 312
ModuleLoad ==
    /\ main = "load"
    /\ LET o == initializeTransporter("startup", 0, serviceState,
                    [proc["startup"] EXCEPT !.route = "startup", !.inits = 1])
       IN  /\ serviceState' = o.st
           /\ proc' = [proc EXCEPT !["startup"] = o.pr]
    /\ main' = "listening"
    /\ UNCHANGED <<passwordSet, plan, transporter>>

\* await transporter.verify() resolves: lines 76-81
VerifyOk(p) ==
    /\ proc[p].pc = "verifying"
    /\ VerifyCanResolve
    /\ serviceState' = OnVerified(serviceState)
    /\ proc' = [proc EXCEPT ![p].pc = "returned", ![p].ret = p]
    /\ UNCHANGED <<passwordSet, plan, main, transporter>>

\* await transporter.verify() rejects: the catch block
VerifyFail(p) ==
    /\ proc[p].pc = "verifying"
    /\ VerifyCanReject
    /\ LET o == Catch(proc[p].retryCount, ErrVerify, serviceState, proc[p])
       IN  /\ serviceState' = o.st
           /\ proc' = [proc EXCEPT ![p] = o.pr]
    /\ plan' = IF plan.mode = "scripted"
               THEN [plan EXCEPT !.failsLeft = @ - 1] ELSE plan
    /\ UNCHANGED <<passwordSet, main, transporter>>

\* the backoff timer fires: return initializeTransporter(retryCount + 1), line 96
TimerFires(p) ==
    /\ proc[p].pc = "backoff"
    /\ LET o == initializeTransporter(p, proc[p].retryCount + 1, serviceState, proc[p])
       IN  /\ serviceState' = o.st
           /\ proc' = [proc EXCEPT ![p] = o.pr]
    /\ UNCHANGED <<passwordSet, plan, main, transporter>>

\* .then((t) => { transporter = t; }) of lines 106-108
StartupThen ==
    /\ proc["startup"].pc = "returned"
    /\ transporter' = proc["startup"].ret
    /\ proc' = [proc EXCEPT !["startup"].pc = "done"]
    /\ UNCHANGED <<passwordSet, plan, main, serviceState>>

(***************************************************************************)
(* The HTTP handlers.  A slot takes a request when it holds none or when   *)
(* its previous request has been answered.                                 *)
(***************************************************************************)
CanAccept(r) == main = "listening" /\ proc[r].pc \in {"idle", "done"}

\* app.get("/") of lines 111-130
GetStatus(r) ==
    /\ CanAccept(r)
    /\ proc' = [proc EXCEPT ![r] = [IdleProc EXCEPT !.pc = "done", !.route = "/",
                                                    !.page = StatusData]]
    /\ UNCHANGED <<passwordSet, plan, main, serviceState, transporter>>

\* return await transporter.sendMail(emailConfig) of lines 141-155, up to the await;
\* the record of the initializeTransporter call, which has returned, is dropped
CallSendMail(options, pr) ==
    [pr EXCEPT !.pc = "sending", !.mail = emailConfig(options),
               !.mailResult = "pending", !.sendMails = @ + 1,
               !.retryCount = 0, !.ret = "null", !.verifies = 0, !.waits = 0]

\* mutant: a request that finds another initialization running starts none
sendEmail_SingleFlight(p, options, st, tr, pr) ==
    IF tr = "null"
    THEN IF \E q \in Procs \ {p} : proc[q].pc \in {"verifying", "backoff"}
         THEN [st |-> st, pr |-> [pr EXCEPT !.pc = "returned", !.ret = "null"]]
         ELSE initializeTransporter(p, 0, st, [pr EXCEPT !.inits = @ + 1])
    ELSE [st |-> st, pr |-> CallSendMail(options, pr)]

\* sendEmail (lines 133-156) from its call to its first await
sendEmail(p, options, st, tr, pr) ==
    IF tr = "null"
    THEN initializeTransporter(p, 0, st, [pr EXCEPT !.inits = @ + 1])
    ELSE [st |-> st, pr |-> CallSendMail(options, pr)]

\* app.post("/test-email") of lines 159-178, up to the first await
PostTestEmail(r) ==
    /\ CanAccept(r)
    /\ LET o == sendEmail(r, TestOptions, serviceState, transporter,
                    [IdleProc EXCEPT !.route = "/test-email", !.input = TestOptions])
       IN  /\ serviceState' = o.st
           /\ proc' = [proc EXCEPT ![r] = o.pr]
    /\ UNCHANGED <<passwordSet, plan, main, transporter>>

\* app.post("/send") of lines 181-220, up to the first await
PostSend(r, in) ==
    /\ CanAccept(r)
    /\ LET fresh == [IdleProc EXCEPT !.route = "/send", !.input = in]
           o == IF MissingFields(in)
                THEN [st |-> serviceState,
                      pr |-> [fresh EXCEPT !.pc = "done",
                                !.response = FailureResponse(ErrMissingFields)]]
                ELSE IF ~emailRegexTest(in.to.v)
                THEN [st |-> serviceState,
                      pr |-> [fresh EXCEPT !.pc = "done",
                                !.response = FailureResponse(ErrInvalidEmail)]]
                ELSE sendEmail(r, in, serviceState, transporter, fresh)
       IN  /\ serviceState' = o.st
           /\ proc' = [proc EXCEPT ![r] = o.pr]
    /\ UNCHANGED <<passwordSet, plan, main, transporter>>

\* lines 135-139 after the await: transporter = <result>; if (!transporter) throw,
\* caught by the handler (lines 172-177, 213-219); else the message is sent
InitReturn(r) ==
    /\ proc[r].pc = "returned"
    /\ transporter' = proc[r].ret
    /\ proc' = [proc EXCEPT ![r] =
                  IF proc[r].ret = "null"
                  THEN [@ EXCEPT !.pc = "done",
                                 !.response = FailureResponse(ErrNotInitialized),
                                 !.retryCount = 0, !.verifies = 0, !.waits = 0]
                  ELSE CallSendMail(@.input, @)]
    /\ UNCHANGED <<passwordSet, plan, main, serviceState>>

\* mutant: a send that settles marks the connection Failed
StateAfterSend_MarkFailed(st) == [st EXCEPT !.connectionStatus = "Failed"]

\* lines 155-156, 167-177, 202-219: neither sendEmail after sendMail nor the
\* handlers assign to serviceState
StateAfterSend(st) == st

\* await transporter.sendMail resolves with info: lines 167-171, 202-212
SendMailOk(r, id) ==
    /\ proc[r].pc = "sending"
    /\ proc' = [proc EXCEPT ![r] = [@ EXCEPT !.pc = "done", !.mailResult = "ok", !.info = id,
                                             !.response = SuccessResponse(id)]]
    /\ serviceState' = StateAfterSend(serviceState)
    /\ UNCHANGED <<passwordSet, plan, main, transporter>>

\* mutant: sendMail is tried a second time before the error is reported
OnSendMailError_Retry(pr) ==
    IF pr.sendMails < 2
    THEN [pr EXCEPT !.sendMails = @ + 1]
    ELSE [pr EXCEPT !.pc = "done", !.mailResult = "error",
                    !.response = FailureResponse(ErrSendMail)]

\* mutant: the rejection is swallowed and success is reported
OnSendMailError_Swallow(pr) ==
    [pr EXCEPT !.pc = "done", !.mailResult = "error",
               !.response = SuccessResponse("")]

\* the handler's catch block after sendMail has rejected: lines 172-177, 213-219
OnSendMailError(pr) ==
    [pr EXCEPT !.pc = "done", !.mailResult = "error",
               !.response = FailureResponse(ErrSendMail)]

\* await transporter.sendMail rejects
SendMailFail(r) ==
    /\ proc[r].pc = "sending"
    /\ proc' = [proc EXCEPT ![r] = OnSendMailError(@)]
    /\ serviceState' = StateAfterSend(serviceState)
    /\ UNCHANGED <<passwordSet, plan, main, transporter>>

(***************************************************************************)
(* Specifications.                                                         *)
(***************************************************************************)
InitialServiceState ==
    [lastError |-> "null", connectionStatus |-> "Not initialized",
     lastCheck |-> "null", reconnectAttempts |-> 0]

\* plans of the SMTP server: Flaky answers verify() either way each time,
\* Down always rejects, Scripted(k) rejects the first k calls and then resolves
Flaky == [mode |-> "flaky", script |-> 0, failsLeft |-> 0]

Down == [mode |-> "down", script |-> 0, failsLeft |-> 0]

Scripted(k) == [mode |-> "scripted", script |-> k, failsLeft |-> k]

Init ==
    /\ passwordSet \in BOOLEAN
    /\ plan = Flaky
    /\ main = "load"
    /\ serviceState = InitialServiceState
    /\ transporter = "null"
    /\ proc = [p \in Procs |-> IdleProc]

Good == <<"a", "@", "a", ".", "a">>

SmallInputs ==
    {[to |-> Str(Good), subject |-> Str(<<"H">>), body |-> Str(<<"B">>), replyTo |-> Undefined],
     [to |-> Str(<<"a", "@", "a">>), subject |-> Str(<<"H">>), body |-> Str(<<"B">>),
      replyTo |-> Undefined],
     [to |-> Str(Good), subject |-> Str(<<"H">>), body |-> Undefined, replyTo |-> Undefined]}

Next ==
    \/ ModuleLoad
    \/ StartupThen
    \/ \E p \in Procs : VerifyOk(p)
    \/ \E p \in Procs : VerifyFail(p)
    \/ \E p \in Procs : TimerFires(p)
    \/ \E r \in Slots : GetStatus(r)
    \/ \E r \in Slots : PostTestEmail(r)
    \/ \E r \in Slots : \E in \in SmallInputs : PostSend(r, in)
    \/ \E r \in Slots : InitReturn(r)
    \/ \E r \in Slots : \E id \in MessageIds : SendMailOk(r, id)
    \/ \E r \in Slots : SendMailFail(r)

Spec == Init /\ [][Next]_vars

(***************************************************************************)
(* SpecWide: one request beside the startup call, arriving at any moment   *)
(* of the startup call, with every request body of the bounded sets below. *)
(***************************************************************************)
FieldValues == {Undefined, Str(<< >>), Str(<<"H">>)}

WideInputs ==
    {[to |-> Str(t), subject |-> Str(<<"H">>), body |-> Str(<<"B">>), replyTo |-> Undefined] :
        t \in AllStrings(MaxToLen)}
    \cup
    {[to |-> t, subject |-> s, body |-> b, replyTo |-> y] :
        t \in {Undefined, Str(<< >>), Str(Good)}, s \in FieldValues, b \in FieldValues,
        y \in {Undefined, Str(<<"r", "@", "r", ".", "r">>)}}

NextWide ==
    \/ ModuleLoad
    \/ StartupThen
    \/ \E p \in {"startup"} \cup OneSlot : VerifyOk(p)
    \/ \E p \in {"startup"} \cup OneSlot : VerifyFail(p)
    \/ \E p \in {"startup"} \cup OneSlot : TimerFires(p)
    \/ \E r \in OneSlot : proc[r].pc = "idle" /\ GetStatus(r)
    \/ \E r \in OneSlot : proc[r].pc = "idle" /\ PostTestEmail(r)
    \/ \E r \in OneSlot : \E in \in WideInputs : proc[r].pc = "idle" /\ PostSend(r, in)
    \/ \E r \in OneSlot : InitReturn(r)
    \/ \E r \in OneSlot : \E id \in MessageIds : SendMailOk(r, id)
    \/ \E r \in OneSlot : SendMailFail(r)

SpecWide == Init /\ [][NextWide]_vars

(***************************************************************************)
(* LadderSpec: the startup call alone (no request starts another           *)
(* initialization), against each plan of the SMTP server.  Every verify()  *)
(* settles and every timer fires, which is the fairness stated.            *)
(***************************************************************************)
InitLadder ==
    /\ passwordSet \in BOOLEAN
    /\ plan \in {Down} \cup {Scripted(k) : k \in 0..MaxScript}
    /\ main = "load"
    /\ serviceState = InitialServiceState
    /\ transporter = "null"
    /\ proc = [p \in Procs |-> IdleProc]

NextLadder ==
    \/ ModuleLoad
    \/ StartupThen
    \/ VerifyOk("startup")
    \/ VerifyFail("startup")
    \/ TimerFires("startup")
    \/ \E r \in OneSlot : GetStatus(r)

LadderSpec ==
    /\ InitLadder /\ [][NextLadder]_vars
    /\ WF_vars(ModuleLoad)
    /\ WF_vars(VerifyOk("startup") \/ VerifyFail("startup"))
    /\ WF_vars(TimerFires("startup"))
    /\ WF_vars(StartupThen)

(***************************************************************************)
(* LiveSpec: the startup call and one request at a time, any number of     *)
(* requests one after the other.  Every verify() and every sendMail()      *)
(* settles, every timer fires and every continuation runs.                 *)
(***************************************************************************)
NextOne ==
    \/ ModuleLoad
    \/ StartupThen
    \/ \E p \in {"startup"} \cup OneSlot : VerifyOk(p)
    \/ \E p \in {"startup"} \cup OneSlot : VerifyFail(p)
    \/ \E p \in {"startup"} \cup OneSlot : TimerFires(p)
    \/ \E r \in OneSlot : GetStatus(r)
    \/ \E r \in OneSlot : PostTestEmail(r)
    \/ \E r \in OneSlot : \E in \in SmallInputs : PostSend(r, in)
    \/ \E r \in OneSlot : InitReturn(r)
    \/ \E r \in OneSlot : \E id \in MessageIds : SendMailOk(r, id)
    \/ \E r \in OneSlot : SendMailFail(r)

LiveSpec ==
    /\ Init /\ [][NextOne]_vars
    /\ WF_vars(ModuleLoad)
    /\ WF_vars(StartupThen)
    /\ \A p \in {"startup"} \cup OneSlot :
          /\ WF_vars(VerifyOk(p) \/ VerifyFail(p))
          /\ WF_vars(TimerFires(p))
    /\ \A r \in OneSlot :
          /\ WF_vars(InitReturn(r))
          /\ WF_vars((\E id \in MessageIds : SendMailOk(r, id)) \/ SendMailFail(r))

(***************************************************************************)
(* C1-C3: validation and the response of the handlers.                     *)
(***************************************************************************)
AbsentOrEmpty(x) == x = Undefined \/ (x.t = "string" /\ Len(x.v) = 0)

Untouched(pr) == pr.inits = 0 /\ pr.verifies = 0 /\ pr.waits = 0 /\ pr.sendMails = 0

IsFailure(resp) == resp.status = 500 /\ ~resp.success /\ resp.error # ""

\* C1: a POST /send whose to, subject or body is absent or empty is answered
\* {success: false} with status 500, and neither initializeTransporter nor
\* sendMail is called for it, in whatever connection state it arrives.
C1_MissingFieldsRejected ==
    \A r \in Slots :
        (/\ proc[r].route = "/send"
         /\ \/ AbsentOrEmpty(proc[r].input.to)
            \/ AbsentOrEmpty(proc[r].input.subject)
            \/ AbsentOrEmpty(proc[r].input.body))
        => /\ proc[r].pc = "done"
           /\ IsFailure(proc[r].response)
           /\ Untouched(proc[r])
           /\ proc[r].mail = NoMail

C1_Witness ==
    \E r \in Slots :
        /\ proc[r].route = "/send"
        /\ proc[r].input.to = Str(Good)
        /\ proc[r].input.subject = Str(<<"H">>)
        /\ proc[r].input.body = Str(<< >>)
        /\ transporter # "null"
        /\ serviceState.connectionStatus = "Connected"
        /\ proc[r].response = FailureResponse(ErrMissingFields)

\* the shape local@domain.tld, stated on the positions of the @ and of the dot
NoSpaceNoAt(s, lo, hi) == \A k \in lo..hi : s[k] # " " /\ s[k] # "@"

HasAddressShape(s) ==
    \E i \in 1..Len(s) : \E j \in 1..Len(s) :
        /\ s[i] = "@" /\ s[j] = "."
        /\ 1 < i /\ i + 1 < j /\ j < Len(s)
        /\ NoSpaceNoAt(s, 1, i - 1)
        /\ NoSpaceNoAt(s, i + 1, j - 1)
        /\ NoSpaceNoAt(s, j + 1, Len(s))

AllPresent(in) ==
    ~AbsentOrEmpty(in.to) /\ ~AbsentOrEmpty(in.subject) /\ ~AbsentOrEmpty(in.body)

\* C2: a POST /send with all three fields present goes on to sendEmail exactly
\* when to has the shape <chars>@<chars>.<chars> (chars: one or more characters
\* that are neither a space nor an @); otherwise it is answered with a failure
\* and neither initializeTransporter nor sendMail is called.
C2_AddressShape ==
    \A r \in Slots :
        (proc[r].route = "/send" /\ AllPresent(proc[r].input))
        => IF HasAddressShape(proc[r].input.to.v)
           THEN /\ proc[r].inits + proc[r].sendMails >= 1
                /\ proc[r].response.error \notin {ErrInvalidEmail, ErrMissingFields}
           ELSE /\ proc[r].pc = "done"
                /\ proc[r].response = FailureResponse(ErrInvalidEmail)
                /\ Untouched(proc[r])

C2_Witness ==
    \E r \in Slots :
        /\ proc[r].route = "/send"
        /\ proc[r].input.to = Str(<<"a", "@", ".", "a">>)
        /\ proc[r].response = FailureResponse(ErrInvalidEmail)
        /\ transporter # "null"

\* C3: a /send or /test-email response has success = true only when the
\* request's sendMail call resolved, and then carries the messageId sendMail
\* returned; when sendMail rejected, validation failed or no transport was
\* obtained, the response is {success: false, error} with status 500.
C3_SuccessOnlyAfterSend ==
    \A r \in Slots :
        proc[r].route \in {"/send", "/test-email"}
        => /\ proc[r].response.success
                => /\ proc[r].mailResult = "ok"
                   /\ proc[r].sendMails = 1
                   /\ proc[r].response.status = 200
                   /\ proc[r].response.messageId = proc[r].info
           /\ (proc[r].pc = "done" /\ proc[r].mailResult # "ok")
                => IsFailure(proc[r].response)
           /\ proc[r].pc # "done" => proc[r].response = NoResponse

C3_Witness ==
    \E r \in Slots :
        /\ proc[r].route = "/send"
        /\ proc[r].pc = "done"
        /\ proc[r].mailResult = "error"
        /\ proc[r].response = FailureResponse(ErrSendMail)

(***************************************************************************)
(* C4-C6: the retry ladder.                                                *)
(***************************************************************************)
\* C4: a request that finds no transport calls initializeTransporter once,
\* and on its behalf at most one verify() is attempted and no backoff is
\* waited before it sends or fails.
C4_NoLadderAtRequestTime ==
    \A r \in Slots :
        /\ proc[r].inits <= 1
        /\ proc[r].verifies <= 1
        /\ proc[r].waits = 0

\* C5: against a server that rejects every verify(), the call
\* initializeTransporter() ends: it makes maxReconnectAttempts retries after
\* its first attempt and no more, returns null and leaves Failed.
C5_DownLadder ==
    /\ [](/\ (plan = Down /\ passwordSet)
             => LET s == proc["startup"]
                IN  /\ s.verifies <= maxReconnectAttempts + 1
                    /\ s.pc \in {"returned", "done"}
                         => /\ s.ret = "null"
                            /\ s.verifies - 1 = maxReconnectAttempts
                            /\ s.retryCount = maxReconnectAttempts
                            /\ serviceState.connectionStatus = "Failed"
                            /\ serviceState.reconnectAttempts = maxReconnectAttempts + 1)
    /\ (plan = Down /\ passwordSet)
          ~> (proc["startup"].pc = "done" /\ transporter = "null")

C5_Witness ==
    /\ plan = Down /\ passwordSet
    /\ proc["startup"].pc = "done"
    /\ proc["startup"].verifies = 6
    /\ serviceState.connectionStatus = "Failed"
    /\ transporter = "null"

\* C6: against a server that rejects verify() k times, k < maxReconnectAttempts,
\* and then resolves, with no other initialization running, the call
\* initializeTransporter() eventually leaves Connected, returns a handle, and
\* leaves reconnectAttempts = 0 and lastError = null.
C6_ScriptedLadder ==
    \A k \in 0..(maxReconnectAttempts - 1) :
        (main = "load" /\ passwordSet /\ plan = Scripted(k))
        ~> (/\ proc["startup"].pc = "done"
            /\ proc["startup"].ret = "startup"
            /\ proc["startup"].verifies = k + 1
            /\ transporter = "startup"
            /\ serviceState.connectionStatus = "Connected"
            /\ serviceState.reconnectAttempts = 0
            /\ serviceState.lastError = "null")

C6_Witness ==
    /\ passwordSet /\ plan.mode = "scripted" /\ plan.script = 4
    /\ proc["startup"].pc = "returned"
    /\ proc["startup"].ret = "startup"
    /\ proc["startup"].verifies = 5
    /\ serviceState.connectionStatus = "Connected"
    /\ serviceState.reconnectAttempts = 0

(***************************************************************************)
(* C7-C10: the status page, single sends, availability, Connected.         *)
(***************************************************************************)
\* C7: without EMAIL_PASSWORD every status page, whenever it is served,
\* reports currentStatus = "Failed", passwordSet = false and isConnected = false.
C7_StatusWithoutSecret ==
    ~passwordSet
    => \A r \in Slots :
          proc[r].page.sent
          => /\ proc[r].page.currentStatus = "Failed"
             /\ ~proc[r].page.passwordSet
             /\ ~proc[r].page.isConnected

C7_Witness ==
    /\ ~passwordSet
    /\ proc["startup"].pc = "done"
    /\ proc["r2"].response = FailureResponse(ErrNotInitialized)
    /\ proc["r1"].page.sent
    /\ proc["r1"].page.currentStatus = "Failed"
    /\ proc["r1"].page.errorMessage = ErrMissingEnv

\* C8: a request calls sendMail at most once; when sendMail rejects, the
\* error goes back to the caller as {success: false, error}, with no second
\* call and no backoff.
C8_SingleSend ==
    \A r \in Slots :
        /\ proc[r].sendMails <= 1
        /\ proc[r].mailResult = "error"
             => /\ proc[r].pc = "done"
                /\ proc[r].response = FailureResponse(ErrSendMail)
                /\ proc[r].sendMails = 1
                /\ proc[r].waits = 0

C8_Witness ==
    \E r \in Slots :
        /\ proc[r].route = "/test-email"
        /\ proc[r].mailResult = "error"
        /\ proc[r].inits = 1
        /\ proc[r].pc = "done"

\* C9: no failure of the mail subsystem stops the service: the listener stays
\* up, and every request, whatever initializations and sends have failed
\* before it, gets one response, a success or a JSON failure, provided every
\* verify(), timer and sendMail() settles.
C9_EveryRequestAnswered ==
    /\ [][main = "listening" => main' = "listening"]_vars
    /\ [](\A r \in OneSlot :
            /\ proc[r].pc # "done" => proc[r].response = NoResponse
            /\ (proc[r].pc = "done" /\ proc[r].route \in {"/send", "/test-email"})
                 => proc[r].response.status \in {200, 500})
    /\ \A r \in OneSlot :
          (proc[r].pc \in {"verifying", "backoff", "returned", "sending"})
          ~> (proc[r].pc = "done" /\ proc[r].response.status \in {200, 500})

C9_Witness ==
    /\ proc["startup"].pc = "done"
    /\ proc["startup"].ret = "null"
    /\ serviceState.connectionStatus = "Failed"
    /\ proc["r1"].pc = "done"
    /\ proc["r1"].inits = 1
    /\ proc["r1"].response = FailureResponse(ErrNotInitialized)

C11_ConfigErrorNotRetried ==
    ~passwordSet
    => /\ \A p \in Procs : proc[p].waits = 0 /\ proc[p].retryCount = 0
       /\ serviceState.reconnectAttempts = 0

StatusTransitions ==
    {<<"Not initialized", "Initializing...">>,
     <<"Initializing...", "Connected">>,
     <<"Initializing...", "Failed">>,
     <<"Failed", "Initializing...">>}

\* C12: every change of connectionStatus is Not initialized -> Initializing,
\* Initializing -> Connected, Initializing -> Failed or Failed -> Initializing.
C12_StatusTransitions ==
    [][serviceState'.connectionStatus # serviceState.connectionStatus
         => <<serviceState.connectionStatus, serviceState'.connectionStatus>>
               \in StatusTransitions]_vars

RECURSIVE SumTo(_)
SumTo(n) == IF n = 0 THEN 0 ELSE n + SumTo(n - 1)

\* C13: in one ladder the wait before retry i is 5000 ms * i, a retry is taken
\* exactly when the incremented reconnectAttempts is at most
\* maxReconnectAttempts, and after k rejections followed by a resolve the
\* total wait is the sum of 5000 * i for i = 1..k.
C13_LinearBackoff ==
    /\ [][LET s == proc["startup"]
              t == proc'["startup"]
          IN  (s.pc \in {"idle", "verifying", "backoff"}
                 /\ serviceState'.reconnectAttempts # 0
                 /\ serviceState' # serviceState
                 /\ serviceState'.connectionStatus = "Failed")
              => /\ (t.pc = "backoff")
                      = (serviceState'.reconnectAttempts <= maxReconnectAttempts)
                 /\ t.pc = "backoff"
                      => t.waits - s.waits = 5000 * serviceState'.reconnectAttempts
                 /\ t.pc # "backoff" => t.pc = "returned" /\ t.waits = s.waits]_vars
    /\ [](LET s == proc["startup"]
          IN  (passwordSet /\ plan.mode = "scripted" /\ s.pc \in {"returned", "done"}
                 /\ s.ret # "null")
              => /\ s.verifies = plan.script + 1
                 /\ s.waits = 5000 * SumTo(plan.script))

C13_Witness ==
    /\ passwordSet /\ plan.mode = "scripted" /\ plan.script = 3
    /\ proc["startup"].pc = "done"
    /\ proc["startup"].waits = 30000
    /\ serviceState.connectionStatus = "Connected"


(***************************************************************************)
(* C14-C17: concurrent initializations, the frame of a send, the start and *)
(* the outcomes of an attempt.                                             *)
(***************************************************************************)
InitInFlight(p) == proc[p].pc \in {"verifying", "backoff"}

\* C14: initialization is not de-duplicated: a request that passes validation
\* while transporter is null starts its own initializeTransporter call,
\* whatever other calls are running (and one that finds a transport starts
\* none), so two or more initializations are in flight at once.
C14_NoDeduplication ==
    [][\A r \in Slots :
         (/\ proc[r].pc \in {"idle", "done"}
          /\ proc'[r] # proc[r]
          /\ proc'[r].route \in {"/send", "/test-email"}
          /\ AllPresent(proc'[r].input)
          /\ HasAddressShape(proc'[r].input.to.v))
         => IF transporter = "null"
            THEN proc'[r].inits = 1 /\ proc'[r].pc \in {"verifying", "backoff"}
            ELSE proc'[r].inits = 0 /\ proc'[r].pc = "sending"]_vars

C14_Witness ==
    /\ InitInFlight("startup")
    /\ InitInFlight("r1")
    /\ InitInFlight("r2")
    /\ proc["r1"].retryCount # proc["r2"].retryCount

\* C15: a sendMail call that settles, rejected or resolved, leaves
\* connectionStatus, lastError, reconnectAttempts, lastCheck and the transport
\* handle as they were; serviceState only changes in a step of an
\* initialization attempt.
C15_SendLeavesConnectionState ==
    /\ [][\A r \in Slots :
            (proc[r].pc = "sending" /\ proc'[r].pc = "done")
            => serviceState' = serviceState /\ transporter' = transporter]_vars
    /\ [][serviceState' # serviceState
            => \E p \in Procs :
                  /\ proc'[p] # proc[p]
                  /\ proc'[p].pc \in {"verifying", "backoff", "returned"}]_vars

C15_Witness ==
    \E r \in Slots :
        /\ proc[r].pc = "done"
        /\ proc[r].mailResult = "error"
        /\ serviceState.connectionStatus = "Connected"
        /\ transporter # "null"

\* C16: every initialization attempt, also one that fails for the missing
\* secret, first sets connectionStatus to Initializing and records lastCheck,
\* and only then sets Connected or Failed.
C16_InitializingFirst ==
    [][(serviceState' # serviceState
          /\ serviceState'.connectionStatus \in {"Connected", "Failed"})
       => /\ serviceState.connectionStatus = "Initializing..."
          /\ serviceState.lastCheck # "null"]_vars

\* C17: initializeTransporter never raises: a call ends only by returning a
\* handle, with Connected, or by returning null, with the failure recorded in
\* lastError and connectionStatus = Failed; every failed attempt is recorded
\* the same way.
C17_NeverRaises ==
    /\ [](\A p \in Procs :
            proc[p].pc \in {"idle", "verifying", "backoff", "returned", "sending", "done"})
    /\ [][\A p \in Procs :
            (proc'[p] # proc[p] /\ proc'[p].pc \in {"backoff", "returned"})
            => \/ /\ proc'[p].pc = "returned" /\ proc'[p].ret = p
                  /\ serviceState'.connectionStatus = "Connected"
               \/ /\ proc'[p].pc = "backoff" \/ proc'[p].ret = "null"
                  /\ serviceState'.connectionStatus = "Failed"
                  /\ serviceState'.lastError \in {ErrMissingEnv, ErrVerify}]_vars

C17_Witness ==
    /\ ~passwordSet
    /\ proc["r1"].pc = "returned"
    /\ proc["r1"].ret = "null"
    /\ proc["r1"].retryCount = maxReconnectAttempts
    /\ serviceState.lastError = ErrMissingEnv


(***************************************************************************)
(* C18-C20: the envelope, the lifetime of the handle, the consistency of   *)
(* serviceState.                                                           *)
(***************************************************************************)
ExpectedFrom == "\"Pension Pilot\" <noreply@pension-pilot.co.uk>"

\* C18: every message handed to sendMail has from = the display name
\* "Pension Pilot" with the sender address SMTP_CONFIG.user, to/subject/text
\* equal to the caller's to/subject/body, replyTo equal to the caller's when
\* given and the default otherwise, and returnPath equal to the bounce address.
C18_Envelope ==
    \A r \in Slots :
        proc[r].sendMails > 0
        => /\ proc[r].mail.from = ExpectedFrom
           /\ proc[r].mail.to = proc[r].input.to
           /\ proc[r].mail.subject = proc[r].input.subject
           /\ proc[r].mail.text = proc[r].input.body
           /\ proc[r].mail.replyTo =
                 (IF AbsentOrEmpty(proc[r].input.replyTo)
                  THEN Str(SMTP_CONFIG.defaultReplyTo) ELSE proc[r].input.replyTo)
           /\ proc[r].mail.returnPath = Str(SMTP_CONFIG.bounceAddress)

\* C19: once transporter holds a handle it holds one in every later state,
\* and no request fails with "Mail service not initialized" afterwards.
C19_HandleNeverLost ==
    [][transporter # "null"
         => /\ transporter' # "null"
            /\ \A r \in Slots :
                  proc'[r].response # proc[r].response
                  => proc'[r].response # FailureResponse(ErrNotInitialized)]_vars

\* C20: in every reachable state Connected goes with lastError = null and
\* reconnectAttempts = 0, and Failed goes with a recorded error and
\* 1 <= reconnectAttempts <= maxReconnectAttempts + 1.
C20_StateConsistent ==
    /\ serviceState.connectionStatus = "Connected"
         => serviceState.lastError = "null" /\ serviceState.reconnectAttempts = 0
    /\ serviceState.connectionStatus = "Failed"
         => /\ serviceState.lastError # "null"
            /\ serviceState.reconnectAttempts >= 1
            /\ serviceState.reconnectAttempts <= maxReconnectAttempts + 1

C20_Witness ==
    /\ serviceState.connectionStatus = "Connected"
    /\ proc["startup"].pc = "backoff"
    /\ proc["startup"].retryCount >= 1
    /\ \E r \in Slots : proc[r].pc = "returned" /\ proc[r].ret = r

====
